---- MODULE Spec2Model ----
(***************************************************************************)
(* PastPulse Telegram bot (src/main.py).                                   *)
(*                                                                         *)
(* A text is a sequence of fragments: a fragment is a maximal run of       *)
(* letters or digits, a single punctuation mark, or a single whitespace    *)
(* character.  Python's substring test `k in t` is Contains, str.split()   *)
(* is the set of maximal runs of non-whitespace fragments, str.lower() is  *)
(* LowerText and str.strip() is Strip.                                     *)
(***************************************************************************)
EXTENDS Naturals, Integers, Sequences, FiniteSets, TLC

VARIABLES
    user_data,      \* context.user_data of every user
    assistant_id,   \* the global _ASSISTANT_ID (0 is None)
    assistants,     \* number of assistants created so far
    files,          \* number of files uploaded to OpenAI Files
    vs_files,       \* ids of the files attached to the vector store
    pc,             \* where the update being handled stands
    upd,            \* the update being handled
    ans,            \* the frame of docs_only_answer_sync
    ev,             \* the frame of evaluate_answer_sync
    replies,        \* update.message.reply_text calls of this update, in order
    fn              \* the frame of a direct call of parse_marker_max

vars == <<user_data, assistant_id, assistants, files, vs_files, pc, upd, ans, ev, replies, fn>>

(***************************************************************************)
(* Bounds of the model.                                                    *)
(***************************************************************************)
MaxFiles == 1
MaxWords == 332

(***************************************************************************)
(* Fragments and the string operations the code uses.                      *)
(***************************************************************************)
Whitespace == {" ", "\n", "\t"}

\* '"', U+201C and U+201D
QuoteMarks == {"\"", "ldquo", "rdquo"}

REFUSAL ==
    <<"Not", " ", "found", " ", "in", " ", "faculty", " ", "documents", ".", " ",
      "Ask", " ", "faculty", " ", "to", " ", "upload", " ", "the", " ", "relevant",
      " ", "material", ".">>

Lower(tok) ==
    CASE tok = "Introduction" -> "introduction"
      [] tok = "Conclusion" -> "conclusion"
      [] tok = "Timeline" -> "timeline"
      [] tok = "Mindmap" -> "mindmap"
      [] tok = "Keywords" -> "keywords"
      [] tok = "PYQ" -> "pyq"
      [] tok = "Frequency" -> "frequency"
      [] tok = "Evaluate" -> "evaluate"
      [] tok = "My" -> "my"
      [] tok = "Answer" -> "answer"
      [] tok = "Discuss" -> "discuss"
      [] tok = "MCQ" -> "mcq"
      [] tok = "Marker" -> "marker"
      [] tok = "PDF" -> "pdf"
      [] OTHER -> tok

LowerText(t) == [i \in DOMAIN t |-> Lower(t[i])]

\* The searched keys that occur inside a longer fragment.
Substrings(tok) ==
    CASE tok = "mcqs" -> {"mcq"}
      [] tok = "remains" -> {"mains"}
      [] tok = "markers" -> {"marker"}
      [] tok = "100" -> {"10"}
      [] tok = "150" -> {"15"}
      [] tok = "200" -> {"20"}
      [] tok = "2015" -> {"20", "15"}
      [] OTHER -> {}

TokHas(tok, k) == k = tok \/ k \in Substrings(tok)

\* `key in t`: a one-fragment key may lie inside a fragment, a longer key
\* matches fragment by fragment.
Contains(t, key) ==
    IF Len(key) = 1
    THEN \E i \in DOMAIN t : TokHas(t[i], key[1])
    ELSE \E i \in 1..(Len(t) + 1 - Len(key)) :
            \A j \in 1..Len(key) : t[i + j - 1] = key[j]

SetMin(S) == CHOOSE m \in S : \A n \in S : m <= n
SetMax(S) == CHOOSE m \in S : \A n \in S : n <= m

NonWs(t) == {i \in DOMAIN t : t[i] \notin Whitespace}

Strip(t) ==
    IF NonWs(t) = {} THEN <<>> ELSE SubSeq(t, SetMin(NonWs(t)), SetMax(NonWs(t)))

\* len(t.split()): the number of maximal runs of non-whitespace fragments
WordCount(t) == Cardinality({i \in NonWs(t) : i = 1 \/ t[i - 1] \in Whitespace})

(***************************************************************************)
(* Detectors.                                                              *)
(***************************************************************************)
McqKeys ==
    {<<"mcq">>, <<"mcqs">>, <<"multiple", " ", "choice">>, <<"prelims">>,
     <<"objective">>, <<"choose", " ", "the", " ", "correct">>}

is_mcq_request(user_text) ==
    \E k \in McqKeys : Contains(LowerText(user_text), k)

MainsDirectives ==
    {"discuss", "analyse", "analyze", "critically", "examine", "comment",
     "elucidate", "explain"}

is_mains_request(user_text) ==
    LET t == LowerText(user_text) IN
    \/ \E i \in DOMAIN t : t[i] \in {"150", "250"}
    \/ Contains(t, <<"mains">>)
    \/ \E k \in MainsDirectives : Contains(t, <<k>>)

must ==
    {<<"introduction">>, <<"conclusion">>, <<"timeline">>, <<"mindmap">>,
     <<"keywords">>, <<"pyq", " ", "frequency">>}

looks_like_mains_pack(text) ==
    \A m \in must : Contains(LowerText(text), m)

has_quote(text) == \E i \in DOMAIN text : text[i] \in QuoteMarks

(***************************************************************************)
(* Evaluation detection, marker parsing, extraction clean-up.              *)
(***************************************************************************)
\* EVAL_PAT.search(t): \bevaluate\s+my\s+(answer|pdf)\b, ignoring case
EVAL_PAT(t) ==
    \E i \in DOMAIN t :
        /\ Lower(t[i]) = "evaluate"
        /\ \E j \in (i + 2)..Len(t) :
            /\ Lower(t[j]) = "my"
            /\ \A m \in (i + 1)..(j - 1) : t[m] \in Whitespace
            /\ \E k \in (j + 2)..Len(t) :
                /\ Lower(t[k]) \in {"answer", "pdf"}
                /\ \A m \in (j + 1)..(k - 1) : t[m] \in Whitespace

is_evaluation_request(text) == text # <<>> /\ EVAL_PAT(text)

parse_marker_max(text, answer_text) ==
    LET t == LowerText(text)
        wc == WordCount(answer_text)
    IN  IF Contains(t, <<"20">>) /\ Contains(t, <<"marker">>) THEN 20
        ELSE IF Contains(t, <<"15">>) /\ Contains(t, <<"marker">>) THEN 15
        ELSE IF Contains(t, <<"10">>) /\ Contains(t, <<"marker">>) THEN 10
        ELSE IF wc >= 330 THEN 20
        ELSE IF wc >= 200 THEN 15
        ELSE 10

RECURSIVE splitlines(_)
splitlines(t) ==
    IF t = <<>> THEN <<>>
    ELSE IF \A i \in DOMAIN t : t[i] # "\n" THEN <<t>>
    ELSE LET i == SetMin({n \in DOMAIN t : t[n] = "\n"})
         IN  <<SubSeq(t, 1, i - 1)>> \o splitlines(SubSeq(t, i + 1, Len(t)))

RECURSIVE join(_)
join(lines) ==
    IF lines = <<>> THEN <<>>
    ELSE IF Len(lines) = 1 THEN lines[1]
    ELSE lines[1] \o <<"\n">> \o join(Tail(lines))

strip_eval_directive(text) ==
    IF text = <<>> THEN <<>>
    ELSE LET lines == [n \in DOMAIN splitlines(text) |-> Strip(splitlines(text)[n])]
             kept == SelectSeq(lines, LAMBDA ln : ~EVAL_PAT(ln))
         IN  Strip(join(kept))

SpTab == {" ", "\t"}

\* the fragments of s at the positions kept, in order
Select(s, kept) == [k \in DOMAIN kept |-> s[kept[k]]]

\* re.sub(r"[ \t]+", " ", s)
collapse_blanks(s) ==
    LET first(i) == s[i] \notin SpTab \/ i = 1 \/ s[i - 1] \notin SpTab
        s1 == Select(s, SelectSeq([i \in DOMAIN s |-> i], first))
    IN  [k \in DOMAIN s1 |-> IF s1[k] \in SpTab THEN " " ELSE s1[k]]

\* re.sub(r"\n{3,}", "\n\n", s)
collapse_newlines(s) ==
    LET third(i) == i >= 3 /\ s[i] = "\n" /\ s[i - 1] = "\n" /\ s[i - 2] = "\n"
        keep(i) == ~third(i)
    IN  Select(s, SelectSeq([i \in DOMAIN s |-> i], keep))

clean_extracted_text(s) == Strip(collapse_newlines(collapse_blanks(s)))

(***************************************************************************)
(* The inputs the environment supplies.                                    *)
(***************************************************************************)
\* n copies of the word tok, separated by sep
Words(tok, n, sep) == [i \in 1..(IF n = 0 THEN 0 ELSE 2 * n - 1) |-> IF i % 2 = 1 THEN tok ELSE sep]

Users == {1, 2}
ADMIN_TELEGRAM_IDS == {1}
ADMIN_SECRET == "secret"

Questions ==
    { <<"who", " ", "built", " ", "sanchi">>,
      <<"Discuss", " ", "the", " ", "causes", " ", "in", " ", "250", " ", "words">>,
      <<"give", " ", "mcqs", " ", "on", " ", "mauryas">>,
      <<"explain", " ", "prelims", " ", "trends">>,
      <<"what", " ", "remains", " ", "of", " ", "hampi">> }

Pack ==
    <<"Introduction", " ", "Conclusion", "\n", "Timeline", " ", "Mindmap", " ",
      "Keywords", " ", "PYQ", " ", "Frequency">>

\* messages.data[0].content[0].text.value of a run (<<>> also stands for no message)
RawResponses ==
    { <<>>,
      <<" ", "\n">>,
      <<"sanchi", " ", "stupa">>,
      <<"\n", "\"", "sanchi", "\"", " ">>,
      REFUSAL,
      <<"ldquo", "sanchi", "rdquo", " ">> \o REFUSAL,
      <<"\"", "sanchi", "\"", " ">> \o SubSeq(REFUSAL, 1, 9),
      <<"rdquo", " ">> \o Pack,
      Pack,
      <<"Introduction", " ", "\"", "sanchi", "\"", " ", "Conclusion">> }

ApiErrors == {"APIConnectionError", "RateLimitError", "APIStatusError", "Exception"}

(***************************************************************************)
(* Fixed messages.                                                         *)
(***************************************************************************)
MSG_CONNECTION == <<"OpenAI connection error. Try again.">>
MSG_RATE_LIMIT == <<"Too many requests. Try again after 1 minute.">>
MSG_API_ERROR == <<"OpenAI API error: ", "e">>
MSG_UNEXPECTED == <<"Unexpected server error. Please try again.">>
MSG_EVAL_UNEXPECTED == <<"Unexpected server error during evaluation. Please try again.">>
MSG_NO_TEXT == <<"I couldn't read any text from your answer. Please upload a clearer scan or paste typed text.">>
MSG_NO_ANSWER_YET == <<"I don't have your answer text yet.">>
MSG_PDF_UNREADABLE == <<"I couldn't read enough text from this PDF.">>
MSG_PHOTO_UNREADABLE == <<"I couldn't read enough text from this image.">>
MSG_READING_PDF == <<"Reading your PDF (text/OCR)...">>
MSG_READING_TXT == <<"Reading your text file...">>
MSG_READING_PHOTO == <<"Reading your photo (OCR)...">>
MSG_PDF_RECEIVED == <<"PDF received.">>
MSG_ANSWER_RECEIVED == <<"Answer received.">>
MSG_IMAGE_RECEIVED == <<"Image received.">>
MSG_UNSUPPORTED == <<"DOC/DOCX evaluation is not enabled yet.">>
MSG_FILE_FAILED == <<"File handling failed. Please try again.">>
MSG_PHOTO_FAILED == <<"Photo handling failed. Please try again.">>
MSG_NOT_AUTHORIZED == <<"Not authorized.">>
MSG_USAGE == <<"Use: /uploaddoc <ADMIN_SECRET>">>
MSG_SEND_FILE == <<"Now send the faculty PDF/DOC file to upload & index.">>
MSG_ONLY_FACULTY == <<"Only faculty can upload.">>
MSG_UPLOADING == <<"Uploading & indexing faculty document...">>
MSG_UPLOADED == <<"Uploaded & indexed.">>
MSG_START == <<"PastPulse AI is Live!">>

(***************************************************************************)
(* Output segmenter.                                                       *)
(***************************************************************************)
TelegramLimit == 3900
MinCut == 800

\* t.rfind(key, 0, end): 0-based, -1 when absent
rfind(t, key, end) ==
    LET S == {i \in 0..(end - Len(key)) : \A j \in 1..Len(key) : t[i + j] = key[j]}
    IN  IF S = {} THEN -1 ELSE SetMax(S)

\* rstrip that also removes the last character kept
rstrip_drops_last(t) ==
    IF NonWs(t) = {} THEN <<>> ELSE SubSeq(t, 1, SetMax(NonWs(t)) - 1)

rstrip(t) == IF NonWs(t) = {} THEN <<>> ELSE SubSeq(t, 1, SetMax(NonWs(t)))
lstrip(t) == IF NonWs(t) = {} THEN <<>> ELSE SubSeq(t, SetMin(NonWs(t)), Len(t))

\* cut_at cutting one character past the limit when no newline serves
cut_at_overlong(remaining, limit) ==
    LET c1 == rfind(remaining, <<"\n", "\n">>, limit)
        c2 == IF c1 = -1 \/ c1 < MinCut THEN rfind(remaining, <<"\n">>, limit) ELSE c1
    IN  IF c2 = -1 \/ c2 < MinCut THEN limit + 1 ELSE c2

\* cut_at taking the last newline even when a blank line serves
cut_at_newline_first(remaining, limit) ==
    LET c1 == rfind(remaining, <<"\n">>, limit)
        c2 == IF c1 = -1 \/ c1 < MinCut THEN rfind(remaining, <<"\n", "\n">>, limit) ELSE c1
    IN  IF c2 = -1 \/ c2 < MinCut THEN limit ELSE c2

\* cut_at that does not advance when no newline serves
cut_at_stalls(remaining, limit) ==
    LET c1 == rfind(remaining, <<"\n", "\n">>, limit)
        c2 == IF c1 = -1 \/ c1 < MinCut THEN rfind(remaining, <<"\n">>, limit) ELSE c1
    IN  IF c2 = -1 \/ c2 < MinCut THEN 0 ELSE c2

\* where the loop cuts: the last blank line before the limit, else the last
\* newline, else the limit itself
cut_at(remaining, limit) ==
    LET c1 == rfind(remaining, <<"\n", "\n">>, limit)
        c2 == IF c1 = -1 \/ c1 < MinCut THEN rfind(remaining, <<"\n">>, limit) ELSE c1
    IN  IF c2 = -1 \/ c2 < MinCut THEN limit ELSE c2

RECURSIVE split_loop(_, _, _)
split_loop(parts, remaining, limit) ==
    IF Len(remaining) <= limit
    THEN IF remaining # <<>> THEN Append(parts, remaining) ELSE parts
    ELSE LET cut == cut_at(remaining, limit)
         IN  split_loop(Append(parts, rstrip(SubSeq(remaining, 1, cut))),
                        lstrip(SubSeq(remaining, cut + 1, Len(remaining))), limit)

\* split_telegram_chunks without the early return for a text that fits
split_telegram_chunks_loop_only(text, limit) == split_loop(<<>>, text, limit)

split_telegram_chunks(text, limit) ==
    IF Len(text) <= limit THEN <<text>> ELSE split_loop(<<>>, text, limit)

(***************************************************************************)
(* docs_only_answer_sync.                                                  *)
(***************************************************************************)
NoAns ==
    [user_text |-> <<>>, text |-> <<>>, text2 |-> <<>>, calls |-> 0,
     ret |-> <<>>, exc |-> "", used |-> <<>>]

\* the text _assistant_run returns for the newest message of the thread
assistant_run_text(raw) == Strip(raw)

\* first_pass without the quotation gate
first_pass_no_quote_gate(user_text, text) ==
    IF text = <<>> THEN "refuse"
    ELSE IF Contains(text, REFUSAL) THEN "refuse"
    ELSE IF (~is_mcq_request(user_text)) /\ is_mains_request(user_text)
              /\ ~looks_like_mains_pack(text) THEN "reformat"
    ELSE "return"

\* first_pass comparing the text with the sentinel instead of searching it
first_pass_sentinel_equality(user_text, text) ==
    IF text = <<>> THEN "refuse"
    ELSE IF text = REFUSAL THEN "refuse"
    ELSE IF ~has_quote(text) THEN "refuse"
    ELSE IF (~is_mcq_request(user_text)) /\ is_mains_request(user_text)
              /\ ~looks_like_mains_pack(text) THEN "reformat"
    ELSE "return"

\* first_pass reformatting multiple-choice requests too
first_pass_ignores_mcq(user_text, text) ==
    IF text = <<>> THEN "refuse"
    ELSE IF Contains(text, REFUSAL) THEN "refuse"
    ELSE IF ~has_quote(text) THEN "refuse"
    ELSE IF is_mains_request(user_text) /\ ~looks_like_mains_pack(text) THEN "reformat"
    ELSE "return"

\* what docs_only_answer_sync does with the first text: "refuse" (return
\* REFUSAL), "return" (return the text) or "reformat" (run the second pass)
first_pass(user_text, text) ==
    IF text = <<>> THEN "refuse"
    ELSE IF Contains(text, REFUSAL) THEN "refuse"
    ELSE IF ~has_quote(text) THEN "refuse"
    ELSE IF (~is_mcq_request(user_text)) /\ is_mains_request(user_text)
              /\ ~looks_like_mains_pack(text) THEN "reformat"
    ELSE "return"

\* the value docs_only_answer_sync returns after the reformat run
second_pass(text, text2) ==
    IF text2 # <<>> /\ ~Contains(text2, REFUSAL)
    THEN IF has_quote(text2) THEN text2 ELSE REFUSAL
    ELSE IF text2 # <<>> /\ Contains(text2, REFUSAL) THEN REFUSAL
    ELSE text

\* a lookup that hands out the assistant created last instead of a new one
get_or_create_assistant_id_stale ==
    IF assistant_id # 0 THEN assistant_id
    ELSE IF assistants > 0 THEN assistants ELSE assistants + 1

\* _get_or_create_assistant_id: the id the run uses
get_or_create_assistant_id == IF assistant_id # 0 THEN assistant_id ELSE assistants + 1

UseAssistant ==
    /\ assistant_id' = get_or_create_assistant_id
    /\ assistants' = IF assistant_id # 0 THEN assistants ELSE assistants + 1

\* docs_only_answer: the value handle_message gets
docs_only_answer(frame) ==
    CASE frame.exc = "" -> frame.ret
      [] frame.exc = "APIConnectionError" -> MSG_CONNECTION
      [] frame.exc = "RateLimitError" -> MSG_RATE_LIMIT
      [] frame.exc = "APIStatusError" -> MSG_API_ERROR
      [] OTHER -> MSG_UNEXPECTED


\* reply_text for every part, in order; Telegram refuses an empty text and
\* reply_text raises
reply_all(parts) ==
    LET empty == {i \in DOMAIN parts : parts[i] = <<>>}
    IN  IF empty = {} THEN [sent |-> parts, raised |-> FALSE]
        ELSE [sent |-> SubSeq(parts, 1, SetMin(empty) - 1), raised |-> TRUE]

\* for part in split_telegram_chunks(out, limit=3900): reply_text(part), in
\* handle_message (an exception escapes the handler) and inside the try of
\* handle_document and handle_photo (the except clause replies)
deliver(kind, sofar, out) ==
    LET r == reply_all(split_telegram_chunks(out, TelegramLimit))
    IN  [replies |-> sofar \o r.sent \o
                       (IF r.raised /\ kind = "document" THEN <<MSG_FILE_FAILED>>
                        ELSE IF r.raised /\ kind = "photo" THEN <<MSG_PHOTO_FAILED>>
                        ELSE <<>>),
         escaped |-> r.raised /\ kind = "message"]

\* the handler sends out and returns
SendOut(out) ==
    /\ replies' = deliver(upd.kind, replies, out).replies
    /\ upd' = [upd EXCEPT !.escaped = deliver(upd.kind, replies, out).escaped]
    /\ pc' = "done"

\* first _assistant_run of docs_only_answer_sync and the gate on its text;
\* unless a reformat is due, the answer is returned and handle_message sends it
AssistantRunFirst ==
    /\ pc = "ans_first"
    /\ \E raw \in RawResponses :
         LET text == assistant_run_text(raw)
             v == first_pass(ans.user_text, text)
         IN  /\ ans' = [ans EXCEPT !.text = text, !.calls = @ + 1,
                                   !.used = Append(@, get_or_create_assistant_id),
                                   !.ret = IF v = "refuse" THEN REFUSAL
                                           ELSE IF v = "return" THEN text ELSE <<>>]
             /\ IF v = "reformat"
                THEN pc' = "ans_reformat" /\ UNCHANGED <<upd, replies>>
                ELSE SendOut(docs_only_answer(ans'))
    /\ UseAssistant
    /\ UNCHANGED <<user_data, files, vs_files, ev, fn>>

\* the reformat _assistant_run, the second gate, and handle_message's replies
AssistantRunReformat ==
    /\ pc = "ans_reformat"
    /\ \E raw \in RawResponses :
         LET text2 == assistant_run_text(raw)
         IN  ans' = [ans EXCEPT !.text2 = text2, !.calls = @ + 1,
                                !.used = Append(@, get_or_create_assistant_id),
                                !.ret = second_pass(ans.text, text2)]
    /\ SendOut(docs_only_answer(ans'))
    /\ UseAssistant
    /\ UNCHANGED <<user_data, files, vs_files, ev, fn>>

\* an _assistant_run that raises, in assistants.create (created = FALSE) or
\* later; docs_only_answer turns the exception into a message
AssistantRunRaises ==
    /\ pc \in {"ans_first", "ans_reformat"}
    /\ \E e \in ApiErrors, created \in BOOLEAN :
         /\ ans' = [ans EXCEPT !.calls = @ + 1, !.exc = e]
         /\ IF created THEN UseAssistant ELSE UNCHANGED <<assistant_id, assistants>>
    /\ SendOut(docs_only_answer(ans'))
    /\ UNCHANGED <<user_data, files, vs_files, ev, fn>>

(***************************************************************************)
(* evaluate_answer_sync.                                                   *)
(***************************************************************************)
\* exc: the except clause that caught the last chat completion's exception
NoEv ==
    [answer_text |-> <<>>, marker_max |-> 0, attempt |-> 0, calls |-> 0,
     ret |-> <<>>, returned |-> "no", exc |-> ""]

NumStr(n) == CASE n = 10 -> "10" [] n = 15 -> "15" [] n = 20 -> "20" [] OTHER -> "0"

\* resp.choices[0].message.content of a completion that succeeds
ScoreLine(total, mx) == <<"Estimated", " ", "Score", ":", " ", total, " ", "/", " ", NumStr(mx)>>
DomainRefusal == <<"Refusal", " ", "(", "Out", " ", "of", " ", "GS", "-", "1", ")">>
EvalContents(mx) ==
    {ScoreLine("0", mx) \o <<"\n">>, ScoreLine("7", mx), DomainRefusal, <<" ">>}

EvalOutcomes == {"ok", "None"} \cup ApiErrors

\* evaluate_answer_sync up to its retry loop
evaluate_entry(answer_text, marker_max) ==
    LET a == Strip(answer_text)
    IN  IF a = <<>>
        THEN [NoEv EXCEPT !.marker_max = marker_max, !.ret = MSG_NO_TEXT, !.returned = "str"]
        ELSE [NoEv EXCEPT !.answer_text = a, !.marker_max = marker_max]

\* eval_attempt that retries a transient error on the last pass too
eval_attempt_always_continues(frame, outcome, content) ==
    LET f == [frame EXCEPT !.calls = @ + 1]
        give(msg, e) == [f EXCEPT !.ret = msg, !.returned = "str", !.exc = e]
        again == [f EXCEPT !.attempt = @ + 1, !.exc = outcome,
                           !.returned = IF frame.attempt + 1 >= 3 THEN "None" ELSE "no"]
    IN  CASE outcome = "ok" -> give(Strip(content), "")
          [] outcome = "None" -> give(MSG_EVAL_UNEXPECTED, "Exception")
          [] outcome = "APIConnectionError" ->
                IF frame.attempt < 3 THEN again ELSE give(MSG_CONNECTION, outcome)
          [] outcome = "RateLimitError" ->
                IF frame.attempt < 3 THEN again ELSE give(MSG_RATE_LIMIT, outcome)
          [] outcome = "APIStatusError" -> give(MSG_API_ERROR, outcome)
          [] OTHER -> give(MSG_EVAL_UNEXPECTED, "Exception")

\* eval_attempt that retries a status error like a transient one
eval_attempt_retries_status(frame, outcome, content) ==
    LET f == [frame EXCEPT !.calls = @ + 1]
        give(msg, e) == [f EXCEPT !.ret = msg, !.returned = "str", !.exc = e]
        again == [f EXCEPT !.attempt = @ + 1, !.exc = outcome,
                           !.returned = IF frame.attempt + 1 >= 3 THEN "None" ELSE "no"]
    IN  CASE outcome = "ok" -> give(Strip(content), "")
          [] outcome = "None" -> give(MSG_EVAL_UNEXPECTED, "Exception")
          [] outcome = "APIConnectionError" ->
                IF frame.attempt < 2 THEN again ELSE give(MSG_CONNECTION, outcome)
          [] outcome = "RateLimitError" ->
                IF frame.attempt < 2 THEN again ELSE give(MSG_RATE_LIMIT, outcome)
          [] outcome = "APIStatusError" -> 
                IF frame.attempt < 2 THEN again ELSE give(MSG_API_ERROR, outcome)
          [] OTHER -> give(MSG_EVAL_UNEXPECTED, "Exception")

\* one pass of the retry loop: the chat completion and the except clauses;
\* a content of None makes .strip() raise, which the last clause catches
eval_attempt(frame, outcome, content) ==
    LET f == [frame EXCEPT !.calls = @ + 1]
        give(msg, e) == [f EXCEPT !.ret = msg, !.returned = "str", !.exc = e]
        again == [f EXCEPT !.attempt = @ + 1, !.exc = outcome,
                           !.returned = IF frame.attempt + 1 >= 3 THEN "None" ELSE "no"]
    IN  CASE outcome = "ok" -> give(Strip(content), "")
          [] outcome = "None" -> give(MSG_EVAL_UNEXPECTED, "Exception")
          [] outcome = "APIConnectionError" ->
                IF frame.attempt < 2 THEN again ELSE give(MSG_CONNECTION, outcome)
          [] outcome = "RateLimitError" ->
                IF frame.attempt < 2 THEN again ELSE give(MSG_RATE_LIMIT, outcome)
          [] outcome = "APIStatusError" -> give(MSG_API_ERROR, outcome)
          [] OTHER -> give(MSG_EVAL_UNEXPECTED, "Exception")

\* one chat completion of the retry loop; once evaluate_answer_sync has
\* returned, the handler sends the result
EvalCall ==
    /\ pc = "eval_call"
    /\ \E outcome \in EvalOutcomes :
         \E content \in (IF outcome = "ok" THEN EvalContents(ev.marker_max) ELSE {<<>>}) :
            /\ ev' = eval_attempt(ev, outcome, content)
            /\ IF ev'.returned = "no"
               THEN UNCHANGED <<pc, upd, replies>>
               ELSE SendOut(ev'.ret)
    /\ UNCHANGED <<user_data, assistant_id, assistants, files, vs_files, ans, fn>>

(***************************************************************************)
(* Text extraction.                                                        *)
(***************************************************************************)
\* a document as the extractors see it: what pdfplumber and the OCR give
\* (ok = FALSE: the call raises), and the bytes of a text file
Doc(ext, typed_ok, typed, ocr_ok, ocr, raw) ==
    [ext |-> ext, typed_ok |-> typed_ok, typed |-> typed, ocr_ok |-> ocr_ok,
     ocr |-> ocr, raw |-> raw]

\* an extraction that falls back on the short typed text when OCR raises
extract_text_from_pdf_keeps_typed(doc) ==
    LET typed_text == IF doc.typed_ok THEN clean_extracted_text(doc.typed) ELSE <<>>
    IN  IF WordCount(typed_text) >= 40
        THEN [text |-> typed_text, mode |-> "typed_pdf"]
        ELSE IF doc.ocr_ok
             THEN [text |-> clean_extracted_text(doc.ocr), mode |-> "ocr_pdf"]
             ELSE [text |-> typed_text, mode |-> "ocr_pdf"]

\* typed extraction first (an exception there leaves typed_text empty), OCR
\* below 40 words (an exception there returns the empty text)
extract_text_from_pdf(doc) ==
    LET typed_text == IF doc.typed_ok THEN clean_extracted_text(doc.typed) ELSE <<>>
    IN  IF WordCount(typed_text) >= 40
        THEN [text |-> typed_text, mode |-> "typed_pdf"]
        ELSE IF doc.ocr_ok
             THEN [text |-> clean_extracted_text(doc.ocr), mode |-> "ocr_pdf"]
             ELSE [text |-> <<>>, mode |-> "ocr_pdf"]

ocr_image_path(photo) ==
    IF photo.ocr_ok THEN clean_extracted_text(photo.ocr) ELSE <<>>

Docs ==
    { Doc("pdf", TRUE, Words("ashoka", 40, " "), FALSE, <<>>, <<>>),
      Doc("pdf", TRUE, <<>>, TRUE,
          <<"ashoka", " ", " ", "ashoka", " ", "\t", "ashoka", "\n", "\n", "\n">>, <<>>),
      Doc("pdf", TRUE, Words("ashoka", 12, " "), FALSE, <<>>, <<>>),
      Doc("pdf", FALSE, <<>>, TRUE, Words("@#$%", 12, " "), <<>>),
      Doc("txt", FALSE, <<>>, FALSE, <<>>, <<" ">> \o Words("ashoka", 3, " ")),
      Doc("txt", FALSE, <<>>, FALSE, <<>>, Words("ashoka", 40, " ")),
      Doc("docx", FALSE, <<>>, FALSE, <<>>, <<>>) }

Photos ==
    { [ocr_ok |-> FALSE, ocr |-> <<>>],
      [ocr_ok |-> TRUE, ocr |-> Words("@#$%", 12, " ")],
      [ocr_ok |-> TRUE, ocr |-> Words("ashoka", 40, " ") \o <<"\n">>] }

Captions ==
    { <<>>, <<"Evaluate", " ", "my", " ", "pdf", " ", "15", " ", "marker">> }

\* an answer pasted as a plain text message
PastedAnswers == {Words("ashoka", 12, " ")}

EvalMessages ==
    { <<"Evaluate", " ", "my", " ", "answer">>,
      <<"evaluate", " ", "my", " ", "answer", " ", "(", "10", " ", "marker", ",", " ",
        "150", " ", "words", ")">>,
      Words("ashoka", 30, " ") \o <<"\n", "Evaluate", " ", "my", " ", "answer">>,
      Words("gdp", 30, " ") \o <<" ", "evaluate", " ", "my", " ", "answer">> }

(***************************************************************************)
(* Telegram handlers.  Updates are handled one at a time.                  *)
(***************************************************************************)
\* extracted: the text the handler extracted from the document or photo
NoUpd ==
    [kind |-> "none", user |-> 0, text |-> <<>>, path |-> "", escaped |-> FALSE,
     extracted |-> <<>>]
NoFn == [hint |-> <<>>, answer |-> <<>>, out |-> 0, pc |-> "off"]

\* is_admin that lets every sender through
is_admin_anyone(user_id) == TRUE

is_admin(user_id) == user_id \in ADMIN_TELEGRAM_IDS

\* store_last_answer appending to the text already cached
store_last_answer_merges(data, text) ==
    [data EXCEPT !.last_answer_text = @ \o text]

\* context.user_data["last_answer_text"] = text
store_last_answer(data, text) == [data EXCEPT !.last_answer_text = text]

\* a handler that has called evaluate_answer: it waits for the completion,
\* or sends what evaluate_answer_sync returned at once
AfterEntry(kind, sofar, frame) ==
    IF frame.returned = "no"
    THEN [pc |-> "eval_call", replies |-> sofar, escaped |-> FALSE]
    ELSE [pc |-> "done", replies |-> deliver(kind, sofar, frame.ret).replies,
          escaped |-> deliver(kind, sofar, frame.ret).escaped]

\* handle_message: which branch a text message takes
message_path(user_text, cached) ==
    IF is_evaluation_request(user_text)
    THEN IF WordCount(strip_eval_directive(user_text)) >= 30 THEN "inline"
         ELSE IF cached = <<>> \/ WordCount(cached) < 10 THEN "no_answer"
         ELSE "cached"
    ELSE "qa"

HandleMessage(u, m) ==
    LET user_text == Strip(m)
        cached == user_data[u].last_answer_text
        path == message_path(user_text, cached)
        possible_answer == strip_eval_directive(user_text)
        answer == IF path = "inline" THEN possible_answer ELSE cached
    IN  /\ pc = "idle"
        /\ ev' = IF path \in {"inline", "cached"}
                 THEN evaluate_entry(answer, parse_marker_max(user_text, answer))
                 ELSE NoEv
        /\ ans' = IF path = "qa" THEN [NoAns EXCEPT !.user_text = user_text] ELSE NoAns
        /\ LET after == AfterEntry("message", <<>>, ev')
           IN  /\ upd' = [NoUpd EXCEPT !.kind = "message", !.user = u, !.text = user_text,
                                       !.path = path,
                                       !.escaped = path \in {"inline", "cached"} /\ after.escaped]
               /\ replies' = CASE path = "qa" -> <<>>
                               [] path = "no_answer" -> <<MSG_NO_ANSWER_YET>>
                               [] OTHER -> after.replies
               /\ pc' = CASE path = "qa" -> "ans_first"
                          [] path = "no_answer" -> "done"
                          [] OTHER -> after.pc
        /\ UNCHANGED <<user_data, assistant_id, assistants, files, vs_files, fn>>

Start(u) ==
    /\ pc = "idle"
    /\ upd' = [NoUpd EXCEPT !.kind = "start", !.user = u]
    /\ replies' = <<MSG_START>>
    /\ pc' = "done"
    /\ UNCHANGED <<user_data, assistant_id, assistants, files, vs_files, ans, ev, fn>>

UploadArgs == {<<>>, <<ADMIN_SECRET>>, <<"guess">>, <<ADMIN_SECRET, "x">>}

uploaddoc(u, args) ==
    LET granted == is_admin(u) /\ Len(args) = 1 /\ args[1] = ADMIN_SECRET
    IN  /\ pc = "idle"
        /\ upd' = [NoUpd EXCEPT !.kind = "uploaddoc", !.user = u, !.text = args,
                                !.path = IF granted THEN "granted" ELSE "denied"]
        /\ replies' = IF ~is_admin(u) THEN <<MSG_NOT_AUTHORIZED>>
                      ELSE IF ~granted THEN <<MSG_USAGE>> ELSE <<MSG_SEND_FILE>>
        /\ user_data' = IF granted
                        THEN [user_data EXCEPT ![u].awaiting_doc_upload = TRUE]
                        ELSE user_data
        /\ pc' = "done"
        /\ UNCHANGED <<assistant_id, assistants, files, vs_files, ans, ev, fn>>

IngestOutcomes == {"ok", "upload_raises", "attach_raises"}

\* what the faculty flow replies: upload_and_index_doc returns, or one of its
\* two steps raises and the except clause of handle_document answers
ingest_replies(ingest) ==
    <<MSG_UPLOADING, IF ingest = "ok" THEN MSG_UPLOADED ELSE MSG_FILE_FAILED>>

\* handle_document: which branch a document takes
document_path(awaiting, admin, doc, caption, download_ok, text) ==
    IF ~download_ok THEN "download_raises"
    ELSE IF awaiting THEN (IF admin THEN "ingest" ELSE "not_faculty")
    ELSE IF doc.ext = "pdf"
         THEN IF text = <<>> \/ WordCount(text) < 10 THEN "pdf_unreadable"
              ELSE IF is_evaluation_request(caption) THEN "pdf_eval" ELSE "pdf_received"
    ELSE IF doc.ext = "txt"
         THEN IF is_evaluation_request(caption) THEN "txt_eval" ELSE "txt_received"
    ELSE "unsupported"

\* a finally clause that leaves the upload flag as it is
finally_keeps_flag(data) == data

\* the finally clause of handle_document: the upload flag is reset if set
finally_reset(data) == [data EXCEPT !.awaiting_doc_upload = FALSE]

HandleDocument(u, doc, cap, download_ok, ingest) ==
    LET caption == Strip(cap)
        awaiting == user_data[u].awaiting_doc_upload
        text == IF doc.ext = "pdf" THEN extract_text_from_pdf(doc).text
                ELSE clean_extracted_text(doc.raw)
        path == document_path(awaiting, is_admin(u), doc, caption, download_ok, text)
        caches == path \in {"pdf_unreadable", "pdf_eval", "pdf_received", "txt_eval", "txt_received"}
        evals == path \in {"pdf_eval", "txt_eval"}
    IN  /\ pc = "idle"
        /\ path = "ingest" => files < MaxFiles
        /\ upd' = [NoUpd EXCEPT !.kind = "document", !.user = u, !.text = caption,
                                !.path = IF path = "ingest" THEN ingest ELSE path,
                                !.extracted = IF caches THEN text ELSE <<>>]
        \* the finally clause resets the upload flag on every path
        /\ user_data' = [user_data EXCEPT
                            ![u] = finally_reset(IF caches THEN store_last_answer(@, text) ELSE @)]
        /\ files' = IF path = "ingest" /\ ingest \in {"ok", "attach_raises"}
                    THEN files + 1 ELSE files
        /\ vs_files' = IF path = "ingest" /\ ingest = "ok"
                       THEN vs_files \cup {files + 1} ELSE vs_files
        /\ assistant_id' = IF path = "ingest" /\ ingest = "ok" THEN 0 ELSE assistant_id
        /\ ev' = IF evals THEN evaluate_entry(text, parse_marker_max(caption, text)) ELSE NoEv
        /\ LET sofar ==
                 CASE path = "download_raises" -> <<MSG_FILE_FAILED>>
                   [] path = "not_faculty" -> <<MSG_ONLY_FACULTY>>
                   [] path = "ingest" -> ingest_replies(ingest)
                   [] path = "pdf_unreadable" -> <<MSG_READING_PDF, MSG_PDF_UNREADABLE>>
                   [] path = "pdf_received" -> <<MSG_READING_PDF, MSG_PDF_RECEIVED>>
                   [] path = "pdf_eval" -> <<MSG_READING_PDF>>
                   [] path = "txt_received" -> <<MSG_READING_TXT, MSG_ANSWER_RECEIVED>>
                   [] path = "txt_eval" -> <<MSG_READING_TXT>>
                   [] OTHER -> <<MSG_UNSUPPORTED>>
               after == AfterEntry("document", sofar, ev')
           IN  /\ replies' = IF evals THEN after.replies ELSE sofar
               /\ pc' = IF evals THEN after.pc ELSE "done"
        /\ UNCHANGED <<assistants, ans, fn>>

\* handle_photo: which branch a photo takes
photo_path(caption, download_ok, text) ==
    IF ~download_ok THEN "download_raises"
    ELSE IF text = <<>> \/ WordCount(text) < 10 THEN "photo_unreadable"
    ELSE IF is_evaluation_request(caption) THEN "photo_eval"
    ELSE "photo_received"

HandlePhoto(u, photo, cap, download_ok) ==
    LET caption == Strip(cap)
        text == ocr_image_path(photo)
        path == photo_path(caption, download_ok, text)
    IN  /\ pc = "idle"
        /\ upd' = [NoUpd EXCEPT !.kind = "photo", !.user = u, !.text = caption, !.path = path,
                                !.extracted = IF download_ok THEN text ELSE <<>>]
        /\ user_data' = IF download_ok
                        THEN [user_data EXCEPT ![u] = store_last_answer(@, text)]
                        ELSE user_data
        /\ ev' = IF path = "photo_eval"
                 THEN evaluate_entry(text, parse_marker_max(caption, text)) ELSE NoEv
        /\ LET sofar ==
                 CASE path = "download_raises" -> <<MSG_PHOTO_FAILED>>
                   [] path = "photo_unreadable" -> <<MSG_READING_PHOTO, MSG_PHOTO_UNREADABLE>>
                   [] path = "photo_received" -> <<MSG_READING_PHOTO, MSG_IMAGE_RECEIVED>>
                   [] OTHER -> <<MSG_READING_PHOTO>>
               after == AfterEntry("photo", sofar, ev')
           IN  /\ replies' = IF path = "photo_eval" THEN after.replies ELSE sofar
               /\ pc' = IF path = "photo_eval" THEN after.pc ELSE "done"
        /\ UNCHANGED <<assistant_id, assistants, files, vs_files, ans, fn>>

\* the handler has returned; the application takes the next update
Return ==
    /\ pc = "done"
    /\ pc' = "idle"
    /\ upd' = NoUpd
    /\ ans' = NoAns
    /\ ev' = NoEv
    /\ replies' = <<>>
    /\ UNCHANGED <<user_data, assistant_id, assistants, files, vs_files, fn>>

Init ==
    /\ user_data = [u \in Users |-> [last_answer_text |-> <<>>, awaiting_doc_upload |-> FALSE]]
    /\ assistant_id = 0
    /\ assistants = 0
    /\ files = 0
    /\ vs_files = {}
    /\ pc = "idle"
    /\ upd = NoUpd
    /\ ans = NoAns
    /\ ev = NoEv
    /\ replies = <<>>
    /\ fn = NoFn

Next ==
    \/ \E u \in Users, m \in Questions \cup PastedAnswers \cup EvalMessages : HandleMessage(u, m)
    \/ \E u \in Users : Start(u)
    \/ \E u \in Users, args \in UploadArgs : uploaddoc(u, args)
    \/ \E u \in Users, doc \in Docs, cap \in Captions, ok \in BOOLEAN :
          \* upload_and_index_doc runs, and has an outcome, in the faculty flow only
          \E ingest \in (IF ok /\ user_data[u].awaiting_doc_upload
                          THEN IngestOutcomes ELSE {"ok"}) :
             HandleDocument(u, doc, cap, ok, ingest)
    \/ \E u \in Users, photo \in Photos, cap \in Captions, ok \in BOOLEAN :
          HandlePhoto(u, photo, cap, ok)
    \/ AssistantRunFirst
    \/ AssistantRunReformat
    \/ AssistantRunRaises
    \/ EvalCall
    \/ Return

Spec == Init /\ [][Next]_vars

(***************************************************************************)
(* parse_marker_max called on its own, on every hint and word count.       *)
(***************************************************************************)
Hints ==
    { <<>>,
      <<"Evaluate", " ", "my", " ", "answer">>,
      <<"Evaluate", " ", "my", " ", "answer", " ", "in", " ", "200", " ", "words">>,
      <<"evaluate", " ", "my", " ", "answer", " ", "20", " ", "marker">>,
      <<"Evaluate", " ", "my", " ", "pdf", " ", "15", " ", "Marker">>,
      <<"evaluate", " ", "my", " ", "answer", " ", "(", "10", " ", "marker", ")">>,
      <<"evaluate", " ", "my", " ", "answer", " ", "(", "10", " ", "marker", ",", " ",
        "150", " ", "words", ")">>,
      <<"evaluate", " ", "my", " ", "answer", " ", "15", " ", "marker", " ", "200", " ", "words">>,
      <<"evaluate", " ", "my", " ", "answer", ",", " ", "150", " ", "words", ",", " ",
        "marker", " ", "unknown">>,
      <<"Evaluate", " ", "my", " ", "answer", " ", "(", "10", "/", "15", "/", "20", " ",
        "marker", ")">> }

InitMarker ==
    /\ user_data = [u \in Users |-> [last_answer_text |-> <<>>, awaiting_doc_upload |-> FALSE]]
    /\ assistant_id = 0
    /\ assistants = 0
    /\ files = 0
    /\ vs_files = {}
    /\ pc = "idle"
    /\ upd = NoUpd
    /\ ans = NoAns
    /\ ev = NoEv
    /\ replies = <<>>
    /\ \E h \in Hints, n \in 0..MaxWords, sep \in {" ", "\n"} :
          fn = [hint |-> h, answer |-> Words("ashoka", n, sep), out |-> 0, pc |-> "call"]

MarkerCall ==
    /\ fn.pc = "call"
    /\ fn' = [fn EXCEPT !.out = parse_marker_max(fn.hint, fn.answer), !.pc = "done"]
    /\ UNCHANGED <<user_data, assistant_id, assistants, files, vs_files, pc, upd, ans, ev, replies>>

NextMarker == MarkerCall

SpecMarker == InitMarker /\ [][NextMarker]_vars

(***************************************************************************)
(* split_telegram_chunks called on its own: every text of at most          *)
(* MaxSmallLen characters under every limit up to MaxSmallLimit, and long  *)
(* texts of paragraphs under limits above MinCut.  Here every fragment of  *)
(* a text is one character.  A chunk the call returned is segmented again. *)
(***************************************************************************)
MaxSmallLen == 5
MaxSmallLimit == 4

Chars == {"a", " ", "\n"}

RECURSIVE TextsOfLen(_)
TextsOfLen(n) ==
    IF n = 0 THEN {<<>>}
    ELSE {Append(t, c) : t \in TextsOfLen(n - 1), c \in Chars}

SmallTexts == UNION {TextsOfLen(n) : n \in 0..MaxSmallLen}

Run(n) == [i \in 1..n |-> "a"]

Breaks == {<<"\n", "\n">>, <<"\n">>, <<" ">>, <<" ", "\n", "\n", "\n", " ">>}

LongTexts ==
    {Run(n1) \o b1 \o Run(n2) \o b2 \o Run(n3) :
        n1 \in {790, 800, 850}, b1 \in Breaks, n2 \in {40, 900}, b2 \in Breaks,
        n3 \in {0, 60, 200}}

LongLimits == {900, 905}

SplitInputs == (SmallTexts \X (1..MaxSmallLimit)) \cup (LongTexts \X LongLimits)

InitSplit ==
    /\ user_data = [u \in Users |-> [last_answer_text |-> <<>>, awaiting_doc_upload |-> FALSE]]
    /\ assistant_id = 0
    /\ assistants = 0
    /\ files = 0
    /\ vs_files = {}
    /\ pc = "idle"
    /\ upd = NoUpd
    /\ ans = NoAns
    /\ ev = NoEv
    /\ replies = <<>>
    /\ \E inp \in SplitInputs :
          fn = [text |-> inp[1], limit |-> inp[2], out |-> <<>>, chunk |-> <<>>,
                again |-> <<>>, pc |-> "call"]

SplitCall ==
    /\ fn.pc = "call"
    /\ fn' = [fn EXCEPT !.out = split_telegram_chunks(fn.text, fn.limit), !.pc = "done"]
    /\ UNCHANGED <<user_data, assistant_id, assistants, files, vs_files, pc, upd, ans, ev, replies>>

\* one of the chunks returned is given to split_telegram_chunks again
ResplitCall ==
    /\ fn.pc = "done"
    /\ \E i \in DOMAIN fn.out :
          fn' = [fn EXCEPT !.chunk = fn.out[i],
                           !.again = split_telegram_chunks(fn.out[i], fn.limit),
                           !.pc = "redone"]
    /\ UNCHANGED <<user_data, assistant_id, assistants, files, vs_files, pc, upd, ans, ev, replies>>

NextSplit == SplitCall \/ ResplitCall

SpecSplit == InitSplit /\ [][NextSplit]_vars

(***************************************************************************)
(* The loop of split_telegram_chunks taken one pass at a time, on the same *)
(* inputs.                                                                 *)
(***************************************************************************)
InitSplitLoop ==
    /\ user_data = [u \in Users |-> [last_answer_text |-> <<>>, awaiting_doc_upload |-> FALSE]]
    /\ assistant_id = 0
    /\ assistants = 0
    /\ files = 0
    /\ vs_files = {}
    /\ pc = "idle"
    /\ upd = NoUpd
    /\ ans = NoAns
    /\ ev = NoEv
    /\ replies = <<>>
    /\ \E inp \in SplitInputs :
          fn = [text |-> inp[1], limit |-> inp[2], remaining |-> <<>>, parts |-> <<>>,
                before |-> <<>>, cut |-> -1, pc |-> "call"]

\* if len(text) <= limit: return [text]; else parts = [], remaining = text
SplitEnter ==
    /\ fn.pc = "call"
    /\ fn' = IF Len(fn.text) <= fn.limit
             THEN [fn EXCEPT !.parts = <<fn.text>>, !.pc = "done"]
             ELSE [fn EXCEPT !.remaining = fn.text, !.pc = "loop"]
    /\ UNCHANGED <<user_data, assistant_id, assistants, files, vs_files, pc, upd, ans, ev, replies>>

\* one pass of the while loop; before and cut keep what the pass cut where.
\* No run makes more passes than the text has characters, which caps parts.
SplitPass ==
    /\ fn.pc = "loop"
    /\ Len(fn.remaining) > fn.limit
    /\ Len(fn.parts) <= Len(fn.text)
    /\ LET cut == cut_at(fn.remaining, fn.limit)
       IN  fn' = [fn EXCEPT !.parts = Append(@, rstrip(SubSeq(fn.remaining, 1, cut))),
                            !.remaining = lstrip(SubSeq(fn.remaining, cut + 1, Len(fn.remaining))),
                            !.before = fn.remaining,
                            !.cut = cut]
    /\ UNCHANGED <<user_data, assistant_id, assistants, files, vs_files, pc, upd, ans, ev, replies>>

\* the loop ends: if remaining: parts.append(remaining); return parts
SplitExit ==
    /\ fn.pc = "loop"
    /\ Len(fn.remaining) <= fn.limit
    /\ fn' = [fn EXCEPT !.parts = IF fn.remaining # <<>> THEN Append(@, fn.remaining) ELSE @,
                        !.pc = "done"]
    /\ UNCHANGED <<user_data, assistant_id, assistants, files, vs_files, pc, upd, ans, ev, replies>>

NextSplitLoop == SplitEnter \/ SplitPass \/ SplitExit

SpecSplitLoop == InitSplitLoop /\ [][NextSplitLoop]_vars

(***************************************************************************)
(* extract_text_from_pdf on its own: PDFs whose typed layer has 0 to       *)
(* MaxTypedWords words, tidy or padded with blanks and blank lines, whose  *)
(* typed extraction or OCR may raise                                       *)
(***************************************************************************)
MaxTypedWords == 44

TypedLayers ==
    {Words("ashoka", n, " ") : n \in 0..MaxTypedWords}
       \cup {<<" ", "\t">> \o Words("ashoka", n, "\n") \o <<"\n", "\n", "\n">> :
               n \in 0..MaxTypedWords}

OcrLayers == {<<>>, <<" ", "\n">>, Words("maurya", 3, " "), Words("maurya", 41, " ") \o <<"\n">>}

InitExtract ==
    /\ user_data = [u \in Users |-> [last_answer_text |-> <<>>, awaiting_doc_upload |-> FALSE]]
    /\ assistant_id = 0
    /\ assistants = 0
    /\ files = 0
    /\ vs_files = {}
    /\ pc = "idle"
    /\ upd = NoUpd
    /\ ans = NoAns
    /\ ev = NoEv
    /\ replies = <<>>
    /\ \E typed \in TypedLayers, ocr \in OcrLayers, typed_ok \in BOOLEAN, ocr_ok \in BOOLEAN :
          fn = [doc |-> Doc("pdf", typed_ok, typed, ocr_ok, ocr, <<>>),
                out |-> [text |-> <<>>, mode |-> ""], pc |-> "call"]

ExtractCall ==
    /\ fn.pc = "call"
    /\ fn' = [fn EXCEPT !.out = extract_text_from_pdf(fn.doc), !.pc = "done"]
    /\ UNCHANGED <<user_data, assistant_id, assistants, files, vs_files, pc, upd, ans, ev, replies>>

NextExtract == ExtractCall

SpecExtract == InitExtract /\ [][NextExtract]_vars

(***************************************************************************)
(* Readability Classifier (specification section 4.2); main.py has none.   *)
(***************************************************************************)
\* characters of a fragment that are neither alphanumeric nor whitespace
NonAlnumChars(tok) ==
    CASE tok = "@#$%" -> 4
      [] tok \in {".", ",", "(", ")", "/", ":", "-", "\"", "ldquo", "rdquo"} -> 1
      [] OTHER -> 0

\* characters of a fragment
CharLen(tok) ==
    CASE tok \in Whitespace -> 1
      [] tok = "@#$%" -> 4
      [] tok = "ashoka" -> 6
      [] tok = "gdp" -> 3
      [] NonAlnumChars(tok) = 1 -> 1
      [] OTHER -> 5

\* at least two letters, with at most one other character between them
WordShape(tok) == NonAlnumChars(tok) = 0 /\ tok \notin Whitespace /\ CharLen(tok) >= 2

looks_unreliable(text) ==
    LET tokens == NonWs(text)
        readable == Cardinality({i \in tokens : WordShape(text[i])})
        chars == [i \in DOMAIN text |-> CharLen(text[i])]
        junk == [i \in DOMAIN text |-> NonAlnumChars(text[i])]
        Sum(f) == LET n(v) == Cardinality({i \in DOMAIN f : f[i] = v})
                  IN  n(1) + 2 * n(2) + 3 * n(3) + 4 * n(4) + 5 * n(5) + 6 * n(6)
    IN  \/ WordCount(text) < 10
        \/ readable * 100 < 45 * Cardinality(tokens)
        \/ Sum(junk) * 100 > 25 * Sum(chars)

(***************************************************************************)
(* Properties of docs_only_answer_sync.                                    *)
(***************************************************************************)
QuoteIn(t) == \E i \in DOMAIN t : t[i] = "\"" \/ t[i] = "ldquo" \/ t[i] = "rdquo"

\* docs_only_answer_sync has returned a value (it did not raise)
AnswerReturned == pc = "done" /\ upd.path = "qa" /\ ans.exc = ""

\* the first _assistant_run has returned a text
FirstResponded ==
    /\ upd.path = "qa"
    /\ pc \in {"ans_reformat", "done"}
    /\ ~(ans.exc # "" /\ ans.calls = 1)

\* the reformat _assistant_run has returned a text
ReformatReturned == AnswerReturned /\ ans.calls = 2

PassesGate(t) == t # <<>> /\ ~Contains(t, REFUSAL) /\ QuoteIn(t)

\* C1: whatever the question and the responses of the generation service,
\* docs_only_answer_sync returns either exactly REFUSAL or a text that holds
\* a quotation mark.
C1_EvidenceGate == AnswerReturned => (ans.ret = REFUSAL \/ QuoteIn(ans.ret))

C1_Witness == AnswerReturned /\ ans.ret # REFUSAL /\ QuoteIn(ans.ret) /\ ans.ret = ans.text

\* C2: a first response that is empty, holds the sentinel anywhere, or holds
\* no quotation mark makes docs_only_answer_sync return exactly REFUSAL
\* after that single generation call.
C2_FailClosed ==
    (AnswerReturned /\ FirstResponded /\ ~PassesGate(ans.text))
        => (ans.ret = REFUSAL /\ ans.calls = 1)

C2_Witness ==
    /\ AnswerReturned
    /\ Contains(ans.text, REFUSAL) /\ ans.text # REFUSAL /\ QuoteIn(ans.text)
    /\ ans.ret = REFUSAL
    /\ ans.calls = 1

\* C3 as claimed: at most two generation calls per invocation; the reformat
\* call is issued exactly once when the question is structured, not
\* multiple-choice, and the first response misses a required marker, and
\* never for a multiple-choice question or a response holding every marker.
C3_AsClaimed ==
    (pc = "done" /\ FirstResponded) =>
        /\ ans.calls <= 2
        /\ (is_mains_request(ans.user_text) /\ ~is_mcq_request(ans.user_text)
              /\ ~looks_like_mains_pack(ans.text)) => ans.calls = 2
        /\ (is_mcq_request(ans.user_text) \/ looks_like_mains_pack(ans.text))
              => ans.calls = 1

\* C3 amended: at most two generation calls per invocation; the reformat
\* call is issued exactly once when the first response passes the evidence
\* gate (not empty, no sentinel, a quotation mark), the question is
\* structured and not multiple-choice, and the first response misses a
\* required marker; in every other case it is not issued.
C3_BoundedReformat ==
    /\ ans.calls <= 2
    /\ (pc = "done" /\ FirstResponded) =>
          (ans.calls = 2 <=>
              /\ PassesGate(ans.text)
              /\ is_mains_request(ans.user_text)
              /\ ~is_mcq_request(ans.user_text)
              /\ ~looks_like_mains_pack(ans.text))

C3_Witness ==
    /\ ReformatReturned
    /\ is_mains_request(ans.user_text)
    /\ ~is_mcq_request(ans.user_text)
    /\ ~looks_like_mains_pack(ans.text)
    /\ PassesGate(ans.text)

\* C4: once a reformat call has returned, docs_only_answer_sync returns the
\* reformatted text if and only if it holds every required marker and a
\* quotation mark, and returns REFUSAL in every other case.  Stated for a
\* reformatted text that is not empty; the empty one is the case of C5.
C4_ReformatRechecked ==
    (ReformatReturned /\ ans.text2 # <<>>) =>
        IF looks_like_mains_pack(ans.text2) /\ QuoteIn(ans.text2)
        THEN ans.ret = ans.text2
        ELSE ans.ret = REFUSAL

\* C5: once a reformat call has returned a text without a quotation mark
\* (the empty text included) or with the sentinel, docs_only_answer_sync
\* returns REFUSAL and not the first-pass text.
C5_ReformatFailClosed ==
    (ReformatReturned /\ (~QuoteIn(ans.text2) \/ Contains(ans.text2, REFUSAL)))
        => (ans.ret = REFUSAL /\ ans.ret # ans.text)

(***************************************************************************)
(* Properties of the scoring path.                                         *)
(***************************************************************************)
\* a chat completion has been requested for ev.answer_text
ScoringCalled == ev.calls > 0

\* the fragment that stands for a word outside GS-1 History / Art & Culture
OffSyllabus == {"gdp"}
OnTopic(t) == \A i \in DOMAIN t : t[i] \notin OffSyllabus

\* the result is a score line "Estimated Score: X / MAX"
IsScore(t) == Len(t) >= 10 /\ SubSeq(t, 1, 5) = <<"Estimated", " ", "Score", ":", " ">>
ScoreIsZero(t) == t[6] = "0"

\* C6: on every submission path a text of fewer than 10 words is never sent
\* to the scoring generation call.
C6_ShortNeverScored == ScoringCalled => WordCount(ev.answer_text) >= 10

\* C7: a text of 10 or more words that the Readability Classifier rejects is
\* never sent to the scoring generation call.
C7_UnreadableNeverScored ==
    ScoringCalled => ~(WordCount(ev.answer_text) >= 10 /\ looks_unreliable(ev.answer_text))

\* C8: for a non-blank, on-topic, readable submission of at least 30 words
\* the total of the score evaluate_answer_sync returns is greater than zero.
C8_AntiZero ==
    (/\ pc = "done"
     /\ ev.returned = "str"
     /\ IsScore(ev.ret)
     /\ WordCount(ev.answer_text) >= 30
     /\ OnTopic(ev.answer_text)
     /\ ~looks_unreliable(ev.answer_text))
        => ~ScoreIsZero(ev.ret)

(***************************************************************************)
(* Properties of parse_marker_max.                                         *)
(***************************************************************************)
\* the marker values the hint names: a number 10, 15 or 20 standing on its
\* own in a hint that holds the word "marker"
NamedMarkers(hint) ==
    IF \E i \in DOMAIN hint : Lower(hint[i]) \in {"marker", "markers"}
    THEN {v \in {10, 15, 20} : \E i \in DOMAIN hint : hint[i] = NumStr(v)}
    ELSE {}

ByWordCount(wc) == IF wc >= 330 THEN 20 ELSE IF wc >= 200 THEN 15 ELSE 10

\* the number of words of the answer built by Words
WordsOf(t) == (Len(t) + 1) \div 2

\* C9: for a hint that names no marker, parse_marker_max returns 10 for
\* 0-199 words, 15 for 200-329 words and 20 for 330 or more words.
C9_InferredFromWordCount ==
    (fn.pc = "done" /\ NamedMarkers(fn.hint) = {})
        => fn.out = ByWordCount(WordsOf(fn.answer))

\* C10: for a hint that names one marker value v with the word "marker",
\* parse_marker_max returns v, whatever the word count and the other digits
\* of the hint.
C10_NamedMarkerWins ==
    (fn.pc = "done" /\ Cardinality(NamedMarkers(fn.hint)) = 1)
        => fn.out \in NamedMarkers(fn.hint)

(***************************************************************************)
(* Properties of split_telegram_chunks.                                    *)
(***************************************************************************)
SplitReturned == fn.pc \in {"done", "redone"}

\* the position after the whitespace that starts at pos
SkipWs(t, pos) ==
    LET stop == {i \in pos..Len(t) : t[i] \notin Whitespace}
    IN  IF stop = {} THEN Len(t) + 1 ELSE SetMin(stop)

\* text is chunks[k], chunks[k+1], ... from pos on, in order, with nothing
\* but whitespace after each of them
RECURSIVE Reassembles(_, _, _, _)
Reassembles(text, pos, chunks, k) ==
    IF k > Len(chunks) THEN pos = Len(text) + 1
    ELSE LET c == chunks[k]
             end == pos + Len(c) - 1
         IN  /\ end <= Len(text)
             /\ SubSeq(text, pos, end) = c
             /\ Reassembles(text, SkipWs(text, end + 1), chunks, k + 1)

RECURSIVE TotalLen(_)
TotalLen(chunks) == IF chunks = <<>> THEN 0 ELSE Len(Head(chunks)) + TotalLen(Tail(chunks))

\* C11: for every text and every limit of at least 1, no chunk that
\* split_telegram_chunks returns is longer than the limit.
C11_ChunkWithinLimit ==
    SplitReturned => \A i \in DOMAIN fn.out : Len(fn.out[i]) <= fn.limit

C11_Witness ==
    /\ fn.pc = "done"
    /\ fn.limit > MinCut
    /\ Len(fn.out) >= 2
    /\ Len(fn.out[1]) = fn.limit

\* C12: the text is the chunks in order with only whitespace between and
\* after them: no other character is dropped, duplicated or reordered, and
\* whitespace is removed only next to a cut.
C12_Lossless == SplitReturned => Reassembles(fn.text, 1, fn.out, 1)

C12_Witness ==
    /\ fn.pc = "done"
    /\ fn.limit > MinCut
    /\ Len(fn.out) >= 2
    /\ Len(fn.out[1]) < fn.limit
    /\ TotalLen(fn.out) < Len(fn.text)

\* C13: a text no longer than the limit comes back as one chunk equal to
\* it, and a chunk that split_telegram_chunks returned comes back from a
\* second call as that chunk alone.
C13_FitsAndIdempotent ==
    /\ (SplitReturned /\ Len(fn.text) <= fn.limit) => fn.out = <<fn.text>>
    /\ fn.pc = "redone" => fn.again = <<fn.chunk>>

C13_Witness ==
    /\ fn.pc = "redone"
    /\ Len(fn.out) >= 2
    /\ fn.chunk = fn.out[2]
    /\ fn.again = <<fn.chunk>>

(***************************************************************************)
(* Properties of the retry loops.                                          *)
(***************************************************************************)
EvalPaths == {"inline", "cached", "pdf_eval", "txt_eval", "photo_eval"}
Transient == {"APIConnectionError", "RateLimitError"}

\* C14: whatever the outcomes of the chat completions, evaluate_answer_sync
\* makes at most 3 of them, never falls out of its loop without a value, and
\* has returned a string when the handler that called it is done.
C14_RetryBoundedTotal ==
    /\ ev.calls <= 3
    /\ ev.returned # "None"
    /\ (pc = "done" /\ upd.path \in EvalPaths) => ev.returned = "str"

C14_Witness ==
    /\ pc = "done"
    /\ upd.path \in EvalPaths
    /\ ev.calls = 3
    /\ ev.exc = "RateLimitError"
    /\ ev.returned = "str"
    /\ ev.ret = MSG_RATE_LIMIT

\* the number of times the generation call that raised had been made
FailedCallAttempts ==
    ans.calls - (IF first_pass(ans.user_text, ans.text) = "reformat" THEN 1 ELSE 0)

\* C15: on the answer path a generation call that fails with a connection
\* or rate-limit error has been made at least twice (it was retried) before
\* docs_only_answer gives the retry-later message.
C15_AnswerPathRetried ==
    (pc = "done" /\ upd.path = "qa" /\ ans.exc \in Transient) => FailedCallAttempts >= 2

\* C16: a status error ends the invocation at once, at any attempt: no
\* further generation call is pending and the message sent last is the
\* diagnostic that carries the error, on the scoring path and on the answer
\* path.
C16_StatusNotRetried ==
    /\ ev.exc = "APIStatusError" =>
          /\ pc = "done"
          /\ ev.returned = "str"
          /\ ev.ret = MSG_API_ERROR
          /\ replies # <<>> /\ replies[Len(replies)] = MSG_API_ERROR
    /\ (upd.path = "qa" /\ ans.exc = "APIStatusError") =>
          /\ pc = "done"
          /\ replies = <<MSG_API_ERROR>>

C16_Witness ==
    /\ pc = "done"
    /\ ev.exc = "APIStatusError"
    /\ ev.calls = 3
    /\ replies[Len(replies)] = MSG_API_ERROR

(***************************************************************************)
(* Properties of the last-answer cache.                                    *)
(***************************************************************************)
\* the handler has extracted a text from the PDF, text file or photo
ReadPaths ==
    {"pdf_unreadable", "pdf_eval", "pdf_received", "txt_eval", "txt_received",
     "photo_unreadable", "photo_eval", "photo_received"}

Cache(u) == user_data[u].last_answer_text

\* C17: a step in which the handler of user u extracts the text of a PDF,
\* text file or photo leaves exactly that text in u's last_answer_text;
\* every other step, another user's submission included, leaves u's
\* last_answer_text as it was.
C17_LastWriteWins ==
    [][\A u \in Users :
          IF pc = "idle" /\ upd'.user = u /\ upd'.path \in ReadPaths
          THEN user_data'[u].last_answer_text = upd'.extracted
          ELSE user_data'[u].last_answer_text = user_data[u].last_answer_text]_vars

C17_Witness ==
    /\ pc = "done"
    /\ upd.path \in ReadPaths
    /\ upd.extracted # <<>>
    /\ Cache(upd.user) = upd.extracted
    /\ \E v \in Users \ {upd.user} : Cache(v) # <<>> /\ Cache(v) # upd.extracted

\* C18: a step in which a user submits an answer of at least 10 words, as a
\* pasted text message, a PDF or a photo, leaves that answer as the user's
\* last answer, and a step in which a user with a last answer of at least 10
\* words sends the directive alone evaluates that last answer.
C18_TwoStepFlow ==
    [][\A u \in Users :
          (pc = "idle" /\ upd'.user = u) =>
             /\ (upd'.kind = "message" /\ upd'.text \in PastedAnswers)
                   => user_data'[u].last_answer_text = upd'.text
             /\ (upd'.kind \in {"document", "photo"} /\ WordCount(upd'.extracted) >= 10)
                   => user_data'[u].last_answer_text = upd'.extracted
             /\ (upd'.kind = "message" /\ upd'.path \in {"cached", "no_answer"}
                   /\ WordCount(user_data[u].last_answer_text) >= 10)
                   => ev'.answer_text = Strip(user_data[u].last_answer_text)]_vars

(***************************************************************************)
(* Properties of the faculty upload.                                       *)
(***************************************************************************)
\* C19: a step uploads a file or attaches one to the vector store only in
\* handle_document for a sender of the admin set whose upload flag is set,
\* and a sender's upload flag is set only by that sender's /uploaddoc, the
\* sender being of the admin set and the argument the secret.
C19_PrivilegedIngestion ==
    [][/\ (files' # files \/ vs_files' # vs_files) =>
             /\ upd'.kind = "document"
             /\ upd'.user \in ADMIN_TELEGRAM_IDS
             /\ user_data[upd'.user].awaiting_doc_upload
       /\ \A u \in Users :
             (user_data'[u].awaiting_doc_upload /\ ~user_data[u].awaiting_doc_upload) =>
                /\ upd'.kind = "uploaddoc"
                /\ upd'.user = u
                /\ u \in ADMIN_TELEGRAM_IDS
                /\ upd'.text = <<ADMIN_SECRET>>]_vars

C19_Witness ==
    /\ pc = "done"
    /\ upd.kind = "document"
    /\ upd.path = "ok"
    /\ upd.user \in ADMIN_TELEGRAM_IDS
    /\ files = 1
    /\ vs_files = {1}

\* C20: when the attach step fails, what the sender is told differs from
\* what the sender is told when the upload step fails.
C20_AttachDistinguishable ==
    (pc = "done" /\ upd.kind = "document" /\ upd.path = "attach_raises")
        => replies # ingest_replies("upload_raises")

(***************************************************************************)
(* Properties of the handlers as a whole.                                  *)
(***************************************************************************)
\* a handler of a text message, document or photo has returned or raised
HandlerDone == pc = "done" /\ upd.kind \in {"message", "document", "photo"}

\* C21: whatever the extraction and the generation service give, a handler
\* that is done has sent at least one message and no exception has left it.
C21_AlwaysReplies == HandlerDone => (replies # <<>> /\ ~upd.escaped)

(***************************************************************************)
(* Properties of the loop of split_telegram_chunks.                        *)
(***************************************************************************)
\* 0-based positions from the minimum position on where a blank line, or a
\* newline, lies wholly within the first limit characters of t
BlankLinesFrom(t, limit) ==
    {i \in MinCut..(limit - 2) : t[i + 1] = "\n" /\ t[i + 2] = "\n"}
NewlinesFrom(t, limit) == {i \in MinCut..(limit - 1) : t[i + 1] = "\n"}

PreferredCut(t, limit) ==
    IF BlankLinesFrom(t, limit) # {} THEN SetMax(BlankLinesFrom(t, limit))
    ELSE IF NewlinesFrom(t, limit) # {} THEN SetMax(NewlinesFrom(t, limit))
    ELSE limit

\* C22: every pass of the loop cuts at the last blank line before the limit
\* if one lies at or past position 800, else at the last newline before the
\* limit if one lies at or past position 800, else at the limit.
C22_CutPreference ==
    fn.cut # -1 =>
       /\ fn.cut = PreferredCut(fn.before, fn.limit)
       /\ fn.pc = "loop" => fn.parts[Len(fn.parts)] = rstrip(SubSeq(fn.before, 1, fn.cut))

\* the newline fallback: the only blank line lies before position 800
C22_Witness ==
    /\ fn.cut # -1
    /\ fn.limit > MinCut
    /\ BlankLinesFrom(fn.before, fn.limit) = {}
    /\ \E i \in 1..(MinCut - 1) : fn.before[i] = "\n" /\ fn.before[i + 1] = "\n"
    /\ fn.cut \in NewlinesFrom(fn.before, fn.limit)

\* C26: for every text and every limit of at least 1, each pass of the loop
\* leaves a remaining text shorter by at least one character than it found,
\* and no call makes more passes than the text has characters.  The length
\* of the remaining text is thus a variant of the loop, which ends once the
\* remaining text fits the limit.
C26_Terminates ==
    /\ [][(fn.pc = "loop" /\ fn'.pc = "loop") =>
             Len(fn'.remaining) < Len(fn.remaining)]_vars
    /\ [](fn.pc = "loop" => Len(fn.parts) + Len(fn.remaining) <= Len(fn.text))

C26_Witness ==
    /\ fn.pc = "done"
    /\ Len(fn.parts) >= 4
    /\ fn.cut = fn.limit

\* the request in progress has just made an _assistant_run that got its id
RunGotId == Len(ans'.used) = Len(ans.used) + 1

DocumentTaken == pc = "idle" /\ upd'.kind = "document"

\* C23: a successful ingestion empties the cached assistant id and a failed
\* one leaves it as it was; a run that finds the cache empty creates an
\* assistant that did not exist before, uses it and caches it, and a run that
\* finds an id uses that id; the cached id is always the assistant created
\* last, so no run after an ingestion uses an assistant created before it.
C23_HandleInvalidated ==
    /\ [][/\ (DocumentTaken /\ upd'.path = "ok") => assistant_id' = 0
          /\ (DocumentTaken /\ upd'.path \in {"upload_raises", "attach_raises"})
                => (assistant_id' = assistant_id /\ assistants' = assistants)
          /\ RunGotId =>
                LET id == ans'.used[Len(ans'.used)]
                IN  IF assistant_id = 0
                    THEN id = assistants + 1 /\ assistants' = id /\ assistant_id' = id
                    ELSE id = assistant_id /\ UNCHANGED <<assistant_id, assistants>>]_vars
    /\ [](assistant_id # 0 => assistant_id = assistants)

C23_Witness ==
    /\ pc = "done" /\ upd.path = "qa"
    /\ vs_files = {1}
    /\ ans.used # <<>> /\ ans.used[1] = 2
    /\ assistants = 2 /\ assistant_id = 2

\* the number of words the typed extraction of a PDF yields
TypedWords(doc) == IF doc.typed_ok THEN WordCount(doc.typed) ELSE 0

\* C24: extract_text_from_pdf always returns a (text, mode) pair; the mode is
\* typed_pdf, with the cleaned typed text, exactly when the typed extraction
\* yields 40 words or more; otherwise the mode is ocr_pdf and the text is the
\* cleaned OCR output, or empty when OCR raises, whatever the typed text was.
C24_FortyWordThreshold ==
    fn.pc = "done" =>
       /\ fn.out.mode \in {"typed_pdf", "ocr_pdf"}
       /\ fn.out.mode = "typed_pdf" <=> TypedWords(fn.doc) >= 40
       /\ fn.out.mode = "typed_pdf" => fn.out.text = clean_extracted_text(fn.doc.typed)
       /\ fn.out.mode = "ocr_pdf" =>
             fn.out.text = IF fn.doc.ocr_ok THEN clean_extracted_text(fn.doc.ocr) ELSE <<>>

C24_Witness ==
    /\ fn.pc = "done"
    /\ TypedWords(fn.doc) \in 1..39
    /\ ~fn.doc.ocr_ok
    /\ fn.out = [text |-> <<>>, mode |-> "ocr_pdf"]

\* C25: when handle_document has taken a document of a user, that user's
\* awaiting_doc_upload flag is false on every path; a document that finds the
\* flag false is never ingested; and only a granted /uploaddoc sets the flag.
C25_OneShotUpload ==
    [][/\ DocumentTaken =>
             /\ ~user_data'[upd'.user].awaiting_doc_upload
             /\ ~user_data[upd'.user].awaiting_doc_upload =>
                   /\ upd'.path \notin (IngestOutcomes \cup {"not_faculty"})
                   /\ UNCHANGED <<files, vs_files, assistant_id>>
       /\ \A u \in Users :
             (user_data'[u].awaiting_doc_upload /\ ~user_data[u].awaiting_doc_upload)
                => (upd'.kind = "uploaddoc" /\ upd'.user = u /\ upd'.path = "granted")]_vars

C25_Witness ==
    /\ pc = "done" /\ upd.kind = "document"
    /\ upd.user \in ADMIN_TELEGRAM_IDS
    /\ files = 1
    /\ upd.path = "txt_received"
    /\ ~user_data[upd.user].awaiting_doc_upload

====
